---- MODULE Spec2Model ----
(***************************************************************************)
(* A model of the AVL tree of src/src/lib.rs: the KeyValue order, the Node *)
(* primitives, the recursive insert / search / remove / remove_min, the    *)
(* rotations and balance, the in-order dump and bulk_insert.               *)
(*                                                                         *)
(* Option::None is the record None.  A Box<Node> is a record with the      *)
(* fields of struct Node.  A panic (unwrap on None) is the value Panic,    *)
(* which every caller passes on, as unwinding does.                        *)
(***************************************************************************)
EXTENDS Integers, Sequences, FiniteSets, TLC

VARIABLES root, M, last, panicked

vars == <<root, M, last, panicked>>

(***************************************************************************)
(* Bounds of the model.                                                    *)
(***************************************************************************)
\* the longest array handed to one bulk_insert call
MaxBulk == 5

\* the subtrees of a node handed to balance on its own have at most this many nodes
MaxNodes == 7

(***************************************************************************)
(* KeyValue, Either and the order on keys.                                 *)
(***************************************************************************)
None == [none |-> TRUE]

Panic == [panic |-> TRUE]

\* enum KeyValue { Number(i32), String(String) }; a String is the sequence of
\* its characters, each a one-character string
Number(n) == [tag |-> "Number", n |-> n, s |-> <<>>]

String(s) == [tag |-> "String", n |-> 0, s |-> s]

\* napi's Either<i32, String>
EitherA(n) == [either |-> "A", n |-> n, s |-> <<>>]

EitherB(s) == [either |-> "B", n |-> 0, s |-> s]

\* impl From<Either<i32, String>> for KeyValue
from_either(e) == IF e.either = "A" THEN Number(e.n) ELSE String(e.s)

\* the closure of search and remove that maps a KeyValue back to an Either
to_either(kv) == IF kv.tag = "Number" THEN EitherA(kv.n) ELSE EitherB(kv.s)

\* Option::map of to_either
map_to_either(opt) == IF opt = None THEN None ELSE to_either(opt)

\* i32::cmp
i32_cmp(a, b) == IF a < b THEN "Less" ELSE IF a > b THEN "Greater" ELSE "Equal"

\* the UTF-8 byte of a character (the letters the model's strings use)
byte(ch) ==
  CASE ch = "a" -> 97  [] ch = "b" -> 98  [] ch = "e" -> 101 [] ch = "f" -> 102
    [] ch = "h" -> 104 [] ch = "i" -> 105 [] ch = "r" -> 114 [] ch = "t" -> 116
    [] ch = "v" -> 118

\* String::cmp: lexicographic on the bytes, a proper prefix is less
RECURSIVE str_cmp(_, _)
str_cmp(a, b) ==
  IF a = <<>> /\ b = <<>> THEN "Equal"
  ELSE IF a = <<>> THEN "Less"
  ELSE IF b = <<>> THEN "Greater"
  ELSE IF byte(Head(a)) < byte(Head(b)) THEN "Less"
  ELSE IF byte(Head(a)) > byte(Head(b)) THEN "Greater"
  ELSE str_cmp(Tail(a), Tail(b))

\* cmp whose cross-variant arms both answer Less
cmp_cross_less(a, b) ==
  IF a.tag = "Number" /\ b.tag = "Number" THEN i32_cmp(a.n, b.n)
  ELSE IF a.tag = "String" /\ b.tag = "String" THEN str_cmp(a.s, b.s)
  ELSE IF a.tag = "Number" THEN "Less"
  ELSE "Less"

\* impl Ord for KeyValue
cmp(a, b) ==
  IF a.tag = "Number" /\ b.tag = "Number" THEN i32_cmp(a.n, b.n)
  ELSE IF a.tag = "String" /\ b.tag = "String" THEN str_cmp(a.s, b.s)
  ELSE IF a.tag = "Number" THEN "Less"
  ELSE "Greater"

(***************************************************************************)
(* Node primitives.                                                        *)
(***************************************************************************)
Node_new(key, value) ==
  [key |-> key, value |-> value, height |-> 1, left |-> None, right |-> None]

height(node) == IF node = None THEN 0 ELSE node.height

i32_max(a, b) == IF a >= b THEN a ELSE b

update_height(n) ==
  [n EXCEPT !.height = 1 + i32_max(height(n.left), height(n.right))]

balance_factor(n) == height(n.left) - height(n.right)

(***************************************************************************)
(* Rotations and balance.                                                  *)
(***************************************************************************)
\* rotate_right that does not recompute the height of the node it moves down
rotate_right_stale(y) ==
  IF y.left = None THEN Panic
  ELSE LET x  == y.left
           y1 == [y EXCEPT !.left = x.right]
       IN update_height([x EXCEPT !.right = y1])

rotate_right(y) ==
  IF y.left = None THEN Panic
  ELSE LET x  == y.left
           y1 == update_height([y EXCEPT !.left = x.right])
       IN update_height([x EXCEPT !.right = y1])

\* rotate_left with the wrong subtree handed over: x.right := y.right
rotate_left_wrong(x) ==
  IF x.right = None THEN Panic
  ELSE LET y  == x.right
           x1 == update_height([x EXCEPT !.right = y.right])
       IN update_height([y EXCEPT !.left = x1, !.right = None])

\* rotate_left that does not recompute the height of the node it moves down
rotate_left_stale(x) ==
  IF x.right = None THEN Panic
  ELSE LET y  == x.right
           x1 == [x EXCEPT !.right = y.left]
       IN update_height([y EXCEPT !.left = x1])

rotate_left(x) ==
  IF x.right = None THEN Panic
  ELSE LET y  == x.right
           x1 == update_height([x EXCEPT !.right = y.left])
       IN update_height([y EXCEPT !.left = x1])

\* the branch balance takes on node: LL and LR end in rotate_right(node),
\* RR and RL in rotate_left(node), "none" returns node as it is
balance_case(node) ==
  LET bf == balance_factor(node) IN
  IF bf > 1 THEN
    IF node.left = None THEN "panic"
    ELSE IF balance_factor(node.left) < 0 THEN "LR" ELSE "LL"
  ELSE IF bf < -1 THEN
    IF node.right = None THEN "panic"
    ELSE IF balance_factor(node.right) > 0 THEN "RL" ELSE "RR"
  ELSE "none"

\* balance with the test of the left child's balance factor inverted
balance_inverted(node) ==
  LET bf == balance_factor(node) IN
  IF bf > 1 THEN
    IF node.left = None THEN Panic
    ELSE IF balance_factor(node.left) > 0
      THEN LET l == rotate_left(node.left) IN
           IF l = Panic THEN Panic ELSE rotate_right([node EXCEPT !.left = l])
      ELSE rotate_right(node)
  ELSE IF bf < -1 THEN
    IF node.right = None THEN Panic
    ELSE IF balance_factor(node.right) > 0
      THEN LET r == rotate_right(node.right) IN
           IF r = Panic THEN Panic ELSE rotate_left([node EXCEPT !.right = r])
      ELSE rotate_left(node)
  ELSE node

\* balance whose inner tests also send an even child to the double rotation
balance_lax(node) ==
  LET bf == balance_factor(node) IN
  IF bf > 1 THEN
    IF node.left = None THEN Panic
    ELSE IF balance_factor(node.left) <= 0
      THEN LET l == rotate_left(node.left) IN
           IF l = Panic THEN Panic ELSE rotate_right([node EXCEPT !.left = l])
      ELSE rotate_right(node)
  ELSE IF bf < -1 THEN
    IF node.right = None THEN Panic
    ELSE IF balance_factor(node.right) >= 0
      THEN LET r == rotate_right(node.right) IN
           IF r = Panic THEN Panic ELSE rotate_left([node EXCEPT !.right = r])
      ELSE rotate_left(node)
  ELSE node

\* balance that rotates as soon as the heights differ
balance_eager(node) ==
  LET bf == balance_factor(node) IN
  IF bf > 0 THEN
    IF node.left = None THEN Panic
    ELSE IF balance_factor(node.left) < 0
      THEN LET l == rotate_left(node.left) IN
           IF l = Panic THEN Panic ELSE rotate_right([node EXCEPT !.left = l])
      ELSE rotate_right(node)
  ELSE IF bf < 0 THEN
    IF node.right = None THEN Panic
    ELSE IF balance_factor(node.right) > 0
      THEN LET r == rotate_right(node.right) IN
           IF r = Panic THEN Panic ELSE rotate_left([node EXCEPT !.right = r])
      ELSE rotate_left(node)
  ELSE node

\* balance without the inner rotation of the LR and RL cases
balance_single(node) ==
  LET bf == balance_factor(node) IN
  IF bf > 1 THEN rotate_right(node)
  ELSE IF bf < -1 THEN rotate_left(node)
  ELSE node

balance(node) ==
  LET bf == balance_factor(node) IN
  IF bf > 1 THEN
    IF node.left = None THEN Panic
    ELSE IF balance_factor(node.left) < 0
      THEN LET l == rotate_left(node.left) IN
           IF l = Panic THEN Panic ELSE rotate_right([node EXCEPT !.left = l])
      ELSE rotate_right(node)
  ELSE IF bf < -1 THEN
    IF node.right = None THEN Panic
    ELSE IF balance_factor(node.right) > 0
      THEN LET r == rotate_right(node.right) IN
           IF r = Panic THEN Panic ELSE rotate_left([node EXCEPT !.right = r])
      ELSE rotate_left(node)
  ELSE node

(***************************************************************************)
(* insert_node, search_node, remove_min, remove_node.  Each returns, with  *)
(* its result, the nodes it handed to balance (args) and the branches      *)
(* balance took on them (calls), innermost call first.                     *)
(***************************************************************************)
\* insert_node that rejects a key it finds instead of overwriting its value
RECURSIVE insert_node_reject(_, _, _)
insert_node_reject(node, key, value) ==
  IF node # None THEN
    LET c == cmp(key, node.key) IN
    IF c = "Equal" THEN [node |-> node, calls |-> <<>>, args |-> <<>>]
    ELSE
      LET sub == IF c = "Less" THEN insert_node_reject(node.left, key, value)
                               ELSE insert_node_reject(node.right, key, value)
          n   == update_height(IF c = "Less" THEN [node EXCEPT !.left = sub.node]
                                             ELSE [node EXCEPT !.right = sub.node])
      IN IF sub.node = Panic THEN sub
         ELSE [node |-> balance(n), calls |-> Append(sub.calls, balance_case(n)),
               args |-> Append(sub.args, n)]
  ELSE [node |-> Node_new(key, value), calls |-> <<>>, args |-> <<>>]

RECURSIVE insert_node(_, _, _)
insert_node(node, key, value) ==
  IF node # None THEN
    LET c == cmp(key, node.key) IN
    IF c = "Equal" THEN
      [node |-> [node EXCEPT !.value = value], calls |-> <<>>, args |-> <<>>]
    ELSE
      LET sub == IF c = "Less" THEN insert_node(node.left, key, value)
                               ELSE insert_node(node.right, key, value)
          n   == update_height(IF c = "Less" THEN [node EXCEPT !.left = sub.node]
                                             ELSE [node EXCEPT !.right = sub.node])
      IN IF sub.node = Panic THEN sub
         ELSE [node |-> balance(n), calls |-> Append(sub.calls, balance_case(n)),
               args |-> Append(sub.args, n)]
  ELSE [node |-> Node_new(key, value), calls |-> <<>>, args |-> <<>>]

\* search_node that descends to the wrong side
RECURSIVE search_node_swapped(_, _)
search_node_swapped(node, key) ==
  IF node # None THEN
    LET c == cmp(key, node.key) IN
    IF c = "Less" THEN search_node_swapped(node.right, key)
    ELSE IF c = "Greater" THEN search_node_swapped(node.left, key)
    ELSE node.value
  ELSE None

RECURSIVE search_node(_, _)
search_node(node, key) ==
  IF node # None THEN
    LET c == cmp(key, node.key) IN
    IF c = "Less" THEN search_node(node.left, key)
    ELSE IF c = "Greater" THEN search_node(node.right, key)
    ELSE node.value
  ELSE None

\* remove_min that recomputes the heights on its way back and does not balance
RECURSIVE remove_min_nobalance(_)
remove_min_nobalance(node) ==
  IF node.left = None THEN
    [node |-> node.right, min |-> [node EXCEPT !.right = None], calls |-> <<>>,
     args |-> <<>>]
  ELSE
    LET sub == remove_min_nobalance(node.left)
        n   == update_height([node EXCEPT !.left = sub.node])
    IN IF sub.node = Panic THEN sub
       ELSE [node |-> n, min |-> sub.min,
             calls |-> Append(sub.calls, balance_case(n)),
               args |-> Append(sub.args, n)]

RECURSIVE remove_min(_)
remove_min(node) ==
  IF node.left = None THEN
    [node |-> node.right, min |-> [node EXCEPT !.right = None], calls |-> <<>>,
     args |-> <<>>]
  ELSE
    LET sub == remove_min(node.left)
        n   == update_height([node EXCEPT !.left = sub.node])
    IN IF sub.node = Panic THEN sub
       ELSE [node |-> balance(n), min |-> sub.min,
             calls |-> Append(sub.calls, balance_case(n)),
               args |-> Append(sub.args, n)]

\* remove_node that takes the successor's key and leaves the value
RECURSIVE remove_node_keepvalue(_, _)
remove_node_keepvalue(node, key) ==
  IF node # None THEN
    LET c == cmp(key, node.key) IN
    IF c = "Equal" /\ node.left = None THEN
      [node |-> node.right, removed |-> node.value, calls |-> <<>>, args |-> <<>>]
    ELSE IF c = "Equal" /\ node.right = None THEN
      [node |-> node.left, removed |-> node.value, calls |-> <<>>, args |-> <<>>]
    ELSE
      LET sub == IF c = "Less" THEN remove_node_keepvalue(node.left, key)
                 ELSE IF c = "Greater" THEN remove_node_keepvalue(node.right, key)
                 ELSE remove_min(node.right)
          n   == update_height(
                   IF c = "Less" THEN [node EXCEPT !.left = sub.node]
                   ELSE IF c = "Greater" THEN [node EXCEPT !.right = sub.node]
                   ELSE [node EXCEPT !.right = sub.node,
                                     !.key = sub.min.key])
          removed == IF c = "Equal" THEN node.value ELSE sub.removed
      IN IF sub.node = Panic THEN [node |-> Panic, removed |-> None, calls |-> sub.calls,
               args |-> sub.args]
         ELSE [node |-> balance(n), removed |-> removed,
               calls |-> Append(sub.calls, balance_case(n)),
               args |-> Append(sub.args, n)]
  ELSE [node |-> None, removed |-> None, calls |-> <<>>, args |-> <<>>]

\* remove_node whose second shortcut hands back the empty right child
RECURSIVE remove_node_wrongchild(_, _)
remove_node_wrongchild(node, key) ==
  IF node # None THEN
    LET c == cmp(key, node.key) IN
    IF c = "Equal" /\ node.left = None THEN
      [node |-> node.right, removed |-> node.value, calls |-> <<>>, args |-> <<>>]
    ELSE IF c = "Equal" /\ node.right = None THEN
      [node |-> node.right, removed |-> node.value, calls |-> <<>>, args |-> <<>>]
    ELSE
      LET sub == IF c = "Less" THEN remove_node_wrongchild(node.left, key)
                 ELSE IF c = "Greater" THEN remove_node_wrongchild(node.right, key)
                 ELSE remove_min(node.right)
          n   == update_height(
                   IF c = "Less" THEN [node EXCEPT !.left = sub.node]
                   ELSE IF c = "Greater" THEN [node EXCEPT !.right = sub.node]
                   ELSE [node EXCEPT !.right = sub.node,
                                     !.key = sub.min.key,
                                     !.value = sub.min.value])
          removed == IF c = "Equal" THEN node.value ELSE sub.removed
      IN IF sub.node = Panic THEN [node |-> Panic, removed |-> None, calls |-> sub.calls,
               args |-> sub.args]
         ELSE [node |-> balance(n), removed |-> removed,
               calls |-> Append(sub.calls, balance_case(n)),
               args |-> Append(sub.args, n)]
  ELSE [node |-> None, removed |-> None, calls |-> <<>>, args |-> <<>>]

RECURSIVE remove_node(_, _)
remove_node(node, key) ==
  IF node # None THEN
    LET c == cmp(key, node.key) IN
    IF c = "Equal" /\ node.left = None THEN
      [node |-> node.right, removed |-> node.value, calls |-> <<>>, args |-> <<>>]
    ELSE IF c = "Equal" /\ node.right = None THEN
      [node |-> node.left, removed |-> node.value, calls |-> <<>>, args |-> <<>>]
    ELSE
      LET sub == IF c = "Less" THEN remove_node(node.left, key)
                 ELSE IF c = "Greater" THEN remove_node(node.right, key)
                 ELSE remove_min(node.right)
          n   == update_height(
                   IF c = "Less" THEN [node EXCEPT !.left = sub.node]
                   ELSE IF c = "Greater" THEN [node EXCEPT !.right = sub.node]
                   ELSE [node EXCEPT !.right = sub.node,
                                     !.key = sub.min.key,
                                     !.value = sub.min.value])
          removed == IF c = "Equal" THEN node.value ELSE sub.removed
      IN IF sub.node = Panic THEN [node |-> Panic, removed |-> None, calls |-> sub.calls,
               args |-> sub.args]
         ELSE [node |-> balance(n), removed |-> removed,
               calls |-> Append(sub.calls, balance_case(n)),
               args |-> Append(sub.args, n)]
  ELSE [node |-> None, removed |-> None, calls |-> <<>>, args |-> <<>>]

(***************************************************************************)
(* traverse_in_order and dump.  A text is the sequence of its pieces.      *)
(***************************************************************************)
RECURSIVE digits(_)
digits(n) ==
  LET d == <<"0", "1", "2", "3", "4", "5", "6", "7", "8", "9">> IN
  IF n < 10 THEN <<d[n + 1]>> ELSE digits(n \div 10) \o <<d[(n % 10) + 1]>>

\* Display of an i32
i32_fmt(n) == IF n < 0 THEN <<"-">> \o digits(-n) ELSE digits(n)

\* the derived Debug of KeyValue (no character of the model's strings is escaped)
debug_fmt(kv) ==
  IF kv.tag = "Number" THEN <<"Number(">> \o i32_fmt(kv.n) \o <<")">>
  ELSE <<"String(\"">> \o kv.s \o <<"\")">>

\* format!("{{ key: {:?}, value: {:?} }}", key, value)
entry_fmt(key, value) ==
  <<"{ key: ">> \o debug_fmt(key) \o <<", value: ">> \o debug_fmt(value) \o <<" }">>

\* traverse_in_order that visits right, self, left
RECURSIVE traverse_reversed(_)
traverse_reversed(node) ==
  IF node # None THEN
    traverse_reversed(node.right) \o <<entry_fmt(node.key, node.value)>>
      \o traverse_reversed(node.left)
  ELSE <<>>

\* traverse_in_order that visits self, left, right
RECURSIVE traverse_pre_order(_)
traverse_pre_order(node) ==
  IF node # None THEN
    <<entry_fmt(node.key, node.value)>> \o traverse_pre_order(node.left)
      \o traverse_pre_order(node.right)
  ELSE <<>>

RECURSIVE traverse_in_order(_)
traverse_in_order(node) ==
  IF node # None THEN
    traverse_in_order(node.left) \o <<entry_fmt(node.key, node.value)>>
      \o traverse_in_order(node.right)
  ELSE <<>>

\* [String]::join
RECURSIVE join(_, _)
join(entries, sep) ==
  IF entries = <<>> THEN <<>>
  ELSE IF Len(entries) = 1 THEN entries[1]
  ELSE entries[1] \o <<sep>> \o join(Tail(entries), sep)

dump(tree) == join(traverse_in_order(tree), ", ")

(***************************************************************************)
(* The inputs the model offers.                                            *)
(***************************************************************************)
five == <<"f", "i", "v", "e">>

three == <<"t", "h", "r", "e", "e">>

\* keys of insert / remove / search: five numbers and two strings
KeyInputs ==
  {EitherA(n) : n \in {3, 5, 10, 20, 30}} \cup {EitherB(<<"a">>), EitherB(<<"a", "b">>)}

ValueInputs == {EitherB(five), EitherB(three)}

\* struct NodeEntry
NodeEntry(key, value) == [key |-> key, value |-> value]

\* keys of the arrays handed to bulk_insert, each with the one value it comes with
BulkKeys == {EitherA(n) : n \in {10, 20, 30, 40, 50}} \cup {EitherB(<<"a">>)}

BulkValue(key) == IF key.either = "A" THEN EitherA(key.n \div 10) ELSE EitherB(three)

\* the arrays of at most MaxBulk entries with distinct keys
BulkInputs ==
  UNION {{[i \in 1..n |-> NodeEntry(ks[i], BulkValue(ks[i]))] :
            ks \in {f \in [1..n -> BulkKeys] : \A i, j \in 1..n : f[i] = f[j] => i = j}} :
         n \in 0..MaxBulk}

(***************************************************************************)
(* The tree and its public operations.  M is the map the tree stands for,  *)
(* last is the latest call: its arguments, its result, the tree before it  *)
(* and the branches its balance calls took.                                *)
(***************************************************************************)
NoCall ==
  [op |-> "none", key |-> None, value |-> None, ret |-> None, pre |-> None,
   calls |-> <<>>, nodes |-> <<>>]

Init ==
  /\ root = None
  /\ M = <<>>
  /\ last = NoCall
  /\ panicked = FALSE

\* what is left in self.root: the new subtree, or None (the root was taken) when
\* the call panicked
settle(node) == IF node = Panic THEN None ELSE node

Insert(key, value) ==
  /\ ~panicked
  /\ last = NoCall
  /\ LET r == insert_node(root, from_either(key), from_either(value)) IN
     /\ root' = settle(r.node)
     /\ panicked' = (r.node = Panic)
     /\ last' = [op |-> "insert", key |-> key, value |-> value, ret |-> None,
                 pre |-> root, calls |-> r.calls, nodes |-> <<>>]
  /\ M' = (key :> value) @@ M

Search(key) ==
  /\ ~panicked
  /\ last = NoCall
  /\ last' = [op |-> "search", key |-> key, value |-> None,
              ret |-> map_to_either(search_node(root, from_either(key))),
              pre |-> root, calls |-> <<>>, nodes |-> <<>>]
  /\ UNCHANGED <<root, M, panicked>>

Dump ==
  /\ ~panicked
  /\ last = NoCall
  /\ last' = [op |-> "dump", key |-> None, value |-> None, ret |-> dump(root),
              pre |-> root, calls |-> <<>>, nodes |-> <<>>]
  /\ UNCHANGED <<root, M, panicked>>

Remove(key) ==
  /\ ~panicked
  /\ last = NoCall
  /\ LET r == remove_node(root, from_either(key)) IN
     /\ root' = settle(r.node)
     /\ panicked' = (r.node = Panic)
     /\ last' = [op |-> "remove", key |-> key, value |-> None,
                 ret |-> map_to_either(r.removed), pre |-> root, calls |-> r.calls, nodes |-> <<>>]
  /\ M' = [k \in DOMAIN M \ {key} |-> M[k]]

\* the loop of bulk_insert over nodes, from tree: the tree it leaves and, for
\* each insert, the branches its balance calls took
RECURSIVE bulk_insert(_, _)
bulk_insert(tree, nodes) ==
  IF nodes = <<>> THEN [node |-> tree, calls |-> <<>>, args |-> <<>>]
  ELSE LET r == insert_node(tree, from_either(nodes[1].key), from_either(nodes[1].value)) IN
       IF r.node = Panic
         THEN [node |-> Panic, calls |-> <<r.calls>>, args |-> <<r.args>>]
       ELSE LET rest == bulk_insert(r.node, Tail(nodes)) IN
            [node |-> rest.node, calls |-> <<r.calls>> \o rest.calls,
             args |-> <<r.args>> \o rest.args]

\* the map M after the same entries, in the same order
RECURSIVE bulk_map(_, _)
bulk_map(map, nodes) ==
  IF nodes = <<>> THEN map
  ELSE bulk_map((nodes[1].key :> nodes[1].value) @@ map, Tail(nodes))

BulkInsert(nodes) ==
  /\ ~panicked
  /\ last = NoCall
  /\ LET r == bulk_insert(root, nodes) IN
     /\ root' = settle(r.node)
     /\ panicked' = (r.node = Panic)
     /\ last' = [op |-> "bulk_insert", key |-> None, value |-> None, ret |-> None,
                 pre |-> root, calls |-> r.calls, nodes |-> nodes]
  /\ M' = bulk_map(M, nodes)

\* the caller has taken the result of the call; the tree is ready for the next
Return ==
  /\ last # NoCall
  /\ last' = NoCall
  /\ UNCHANGED <<root, M, panicked>>

Next ==
  \/ \E key \in KeyInputs, value \in ValueInputs : Insert(key, value)
  \/ \E key \in KeyInputs : Search(key)
  \/ Dump
  \/ \E key \in KeyInputs : Remove(key)
  \/ Return

Spec == Init /\ [][Next]_vars

\* a fresh tree that one bulk_insert call loads
NextBulk ==
  \/ root = None /\ \E nodes \in BulkInputs : BulkInsert(nodes)
  \/ Return

SpecBulk == Init /\ [][NextBulk]_vars

(***************************************************************************)
(* What the properties speak of: the nodes of a tree, their keys and       *)
(* entries, and the height a subtree really has.                           *)
(***************************************************************************)
RECURSIVE Subtrees(_)
Subtrees(node) ==
  IF node = None THEN {} ELSE {node} \cup Subtrees(node.left) \cup Subtrees(node.right)

RECURSIVE Size(_)
Size(node) == IF node = None THEN 0 ELSE 1 + Size(node.left) + Size(node.right)

RECURSIVE TrueHeight(_)
TrueHeight(node) ==
  IF node = None THEN 0
  ELSE 1 + i32_max(TrueHeight(node.left), TrueHeight(node.right))

KeysOf(node) == {n.key : n \in Subtrees(node)}

EntriesOf(node) == {[key |-> n.key, value |-> n.value] : n \in Subtrees(node)}

Abs(i) == IF i < 0 THEN -i ELSE i

\* the node of tree that holds key
NodeOf(tree, key) == CHOOSE n \in Subtrees(tree) : n.key = key

Rotating == {"LL", "LR", "RR", "RL"}

\* the call in last has key as its argument, and key is / is not in the tree it
\* was made on
LastKey == from_either(last.key)

LastHit == LastKey \in KeysOf(last.pre)

(***************************************************************************)
(* C1.  AVL balance: in every state reachable from the empty tree by       *)
(* insert and remove calls, the true heights of the two subtrees of every  *)
(* node differ by at most one.                                             *)
(***************************************************************************)
C1_Balanced ==
  \A n \in Subtrees(root) : Abs(TrueHeight(n.left) - TrueHeight(n.right)) <= 1

\* a remove has just rebalanced with a double rotation, in a tree of six nodes
C1_Witness ==
  /\ last.op = "remove"
  /\ \E i \in DOMAIN last.calls : last.calls[i] \in {"LR", "RL"}
  /\ Size(root) = 6

(***************************************************************************)
(* C2.  BST order: in every reachable state, at every node all keys of the *)
(* left subtree are less than the node's key and all keys of the right     *)
(* subtree are greater, under cmp (so no key occurs twice).                *)
(***************************************************************************)
C2_Ordered ==
  /\ \A n \in Subtrees(root) :
       /\ \A k \in KeysOf(n.left) : cmp(k, n.key) = "Less"
       /\ \A k \in KeysOf(n.right) : cmp(k, n.key) = "Greater"
  /\ Size(root) = Cardinality(KeysOf(root))

\* a remove has just overwritten a node that had two children with its successor,
\* in a tree that holds numbers and strings
C2_Witness ==
  /\ last.op = "remove"
  /\ LastHit
  /\ NodeOf(last.pre, LastKey).left # None
  /\ NodeOf(last.pre, LastKey).right # None
  /\ \E k \in KeysOf(root) : k.tag = "String"
  /\ \E k \in KeysOf(root) : k.tag = "Number"
  /\ Size(root) = 5

(***************************************************************************)
(* C3.  The tree refines the map M (insert(k, v) sets M[k] := v, remove(k) *)
(* deletes k): in every reachable state and for every key k, search(k)     *)
(* returns M[k] when k is in M and is absent when it is not; a search call *)
(* returns just that.                                                      *)
(***************************************************************************)
C3_RefinesMap ==
  /\ \A k \in KeyInputs :
       map_to_either(search_node(root, from_either(k)))
         = IF k \in DOMAIN M THEN M[k] ELSE None
  /\ last.op = "search" =>
       last.ret = IF last.key \in DOMAIN M THEN M[last.key] ELSE None

\* a search has found, in a tree of six keys, a string key with its value, while
\* another key was never inserted or is removed
C3_Witness ==
  /\ last.op = "search"
  /\ last.ret = EitherB(three)
  /\ last.key = EitherB(<<"a", "b">>)
  /\ Size(root) = 6
  /\ EitherA(3) \notin DOMAIN M

(***************************************************************************)
(* C4.  Remove correctness: when remove(k) is called in a reachable state  *)
(* in which k is stored with value v, it returns v (also when k's node has *)
(* two children), afterwards search(k) is absent, and every other key is   *)
(* still stored, and found by search, with the value it had.               *)
(***************************************************************************)
C4_RemoveCorrect ==
  (last.op = "remove" /\ LastHit) =>
    /\ last.ret = to_either(NodeOf(last.pre, LastKey).value)
    /\ search_node(root, LastKey) = None
    /\ EntriesOf(root) = {e \in EntriesOf(last.pre) : e.key # LastKey}
    /\ \A e \in EntriesOf(last.pre) :
         e.key # LastKey => search_node(root, e.key) = e.value

\* the removed key's node had two children, its successor carried the other
\* value, and remove_min rebalanced on its way back
C4_Witness ==
  /\ last.op = "remove"
  /\ LastHit
  /\ LET n == NodeOf(last.pre, LastKey) IN
       /\ n.left # None
       /\ n.right # None
       /\ n.right.left # None
       /\ n.value # remove_min(n.right).min.value
       /\ \E i \in DOMAIN remove_min(n.right).calls :
            remove_min(n.right).calls[i] \in Rotating

(***************************************************************************)
(* C5.  Upsert: after insert(k, v) search(k) returns v, so that a second   *)
(* insert of k decides; and an insert of a key that is already stored      *)
(* replaces that node's value and nothing else: keys, shape, cached        *)
(* heights and the other values stay.                                      *)
(***************************************************************************)
RECURSIVE WithValue(_, _, _)
WithValue(node, key, value) ==
  IF node = None THEN None
  ELSE [node EXCEPT !.value = IF node.key = key THEN value ELSE @,
                    !.left = WithValue(node.left, key, value),
                    !.right = WithValue(node.right, key, value)]

C5_Upsert ==
  last.op = "insert" =>
    /\ search_node(root, LastKey) = from_either(last.value)
    /\ LastHit => root = WithValue(last.pre, LastKey, from_either(last.value))

\* an insert has overwritten the value of a key stored below the root
C5_Witness ==
  /\ last.op = "insert"
  /\ LastHit
  /\ root # last.pre
  /\ root.key # LastKey
  /\ Size(root) = 7

(***************************************************************************)
(* C6.  Sorted dump: in every reachable state the in-order traversal that  *)
(* dump joins lists exactly the stored entries, each once, with keys       *)
(* strictly increasing under cmp; a dump call returns their join.          *)
(***************************************************************************)
C6_SortedDump ==
  LET t == traverse_in_order(root)
      E == EntriesOf(root)
      \* each stored entry with the text that shows it
      P == {<<e, entry_fmt(e.key, e.value)>> : e \in E}
  IN /\ Len(t) = Size(root)
     /\ Len(t) = Cardinality(E)
     /\ \A i \in 1..Len(t) : \E p \in P : p[2] = t[i]
     /\ \A p \in P : \E i \in 1..Len(t) : p[2] = t[i]
     /\ \A i, j \in 1..Len(t) :
          i < j => \E p, q \in P : /\ p[2] = t[i]
                                   /\ q[2] = t[j]
                                   /\ cmp(p[1].key, q[1].key) = "Less"
     /\ last.op = "dump" => last.ret = join(t, ", ")

\* a dump of the full tree, numbers first and then strings
C6_Witness ==
  /\ last.op = "dump"
  /\ Size(root) = 7
  /\ root.left # None
  /\ root.right # None
  /\ Len(last.ret) > 7

(***************************************************************************)
(* C7.  No panic: in no sequence of insert and remove calls from the empty *)
(* tree is an unwrap of balance, rotate_right or rotate_left applied to an *)
(* empty child; rotate_right is only called on a node with a left child,   *)
(* rotate_left only on a node with a right child.                          *)
(***************************************************************************)
C7_NoPanic ==
  /\ ~panicked
  /\ last.op \in {"insert", "remove"} =>
       \A i \in DOMAIN last.calls : last.calls[i] # "panic"

\* an insert into a tree of six nodes has rotated the left child to the left
\* and then its node to the right
C7_Witness ==
  /\ last.op = "insert"
  /\ ~panicked
  /\ \E i \in DOMAIN last.calls : last.calls[i] = "LR"
  /\ Size(root) = 7

(***************************************************************************)
(* C8.  Remove of a key that is not stored returns absent and leaves the   *)
(* tree as it was (shape, keys, values, cached heights), although height   *)
(* recomputation and balance run on every node of the search path.         *)
(***************************************************************************)
\* the number of nodes search_node visits looking for key
RECURSIVE PathLen(_, _)
PathLen(node, key) ==
  IF node = None THEN 0
  ELSE IF cmp(key, node.key) = "Less" THEN 1 + PathLen(node.left, key)
  ELSE IF cmp(key, node.key) = "Greater" THEN 1 + PathLen(node.right, key)
  ELSE 1

C8_RemoveMissing ==
  (last.op = "remove" /\ ~LastHit) =>
    /\ last.ret = None
    /\ root = last.pre
    /\ Len(last.calls) = PathLen(last.pre, LastKey)
    /\ \A i \in DOMAIN last.calls : last.calls[i] = "none"

\* a missing key was looked for along a path of three nodes, one of them with
\* subtrees of different heights
C8_Witness ==
  /\ last.op = "remove"
  /\ ~LastHit
  /\ Len(last.calls) = 3
  /\ balance_factor(root) # 0
  /\ root = last.pre

(***************************************************************************)
(* C9.  Insertion-order independence of dump: for every set of distinct    *)
(* keys, each key with its one value, loading any permutation of the       *)
(* entries into an empty tree gives one and the same dump (the trees may   *)
(* differ).  Stated where the entries were loaded in ascending key order,  *)
(* which happens for every set: the dump of every permutation is that      *)
(* state's dump, so the dumps of any two permutations are equal.           *)
(***************************************************************************)
Permuted(nodes, f) == [i \in 1..Len(nodes) |-> nodes[f[i]]]

AscendingKeys(nodes) ==
  \A i, j \in 1..Len(nodes) :
    i < j => cmp(from_either(nodes[i].key), from_either(nodes[j].key)) = "Less"

C9_OrderIndependent ==
  (last.op = "bulk_insert" /\ last.pre = None /\ AscendingKeys(last.nodes)) =>
    LET d == dump(root) IN
    \A f \in Permutations(1..Len(last.nodes)) :
      dump(bulk_insert(None, Permuted(last.nodes, f)).node) = d

\* five entries, a string key among them, were loaded in ascending order, and
\* some other order of them builds another tree
C9_Witness ==
  /\ last.op = "bulk_insert"
  /\ last.pre = None
  /\ AscendingKeys(last.nodes)
  /\ Len(last.nodes) = 5
  /\ last.nodes[5].key = EitherB(<<"a">>)
  /\ \E f \in Permutations(1..5) :
       bulk_insert(None, Permuted(last.nodes, f)).node # root

(***************************************************************************)
(* C10.  Ascending inserts: inserting the keys 10, 20, 30, 40, 50 in this  *)
(* order into an empty tree rebalances only by right-right cases (a single *)
(* rotate_left), and does so; the tree then has height 3 and dump shows    *)
(* 10, 20, 30, 40, 50 in this order.                                       *)
(***************************************************************************)
Ascending ==
  [i \in 1..5 |-> NodeEntry(EitherA(10 * i), BulkValue(EitherA(10 * i)))]

C10_AscendingFinal ==
  (last.op = "bulk_insert" /\ last.pre = None /\ last.nodes = Ascending) =>
    /\ Len(last.calls) = 5
    /\ \A i \in 1..5 : \A j \in DOMAIN last.calls[i] :
         last.calls[i][j] \in {"none", "RR"}
    /\ \E i \in 1..5 : \E j \in DOMAIN last.calls[i] : last.calls[i][j] = "RR"
    /\ TrueHeight(root) = 3
    /\ height(root) = 3
    /\ dump(root)
         = join([i \in 1..5 |-> entry_fmt(Number(10 * i), Number(i))], ", ")

\* the five keys were loaded in ascending order and 20 is at the root
C10_Witness ==
  /\ last.op = "bulk_insert"
  /\ last.pre = None
  /\ last.nodes = Ascending
  /\ root.key = Number(20)
  /\ Size(root) = 5

(***************************************************************************)
(* C11.  Ascending inserts, the first rebalance: when 10, 20, 30, 40, 50   *)
(* are inserted in this order into an empty tree, no balance call rotates  *)
(* while 10 and 20 are inserted, the first rotation happens at size 3, on  *)
(* inserting 30, and the root key after that rebalance is 20 (it is the    *)
(* middle key that the right-right case lifts, not 30).                    *)
(***************************************************************************)
AscendingPrefix(n) == SubSeq(Ascending, 1, n)

\* the insert of the i-th entry of the last bulk_insert rotated somewhere
RotatedAt(i) == \E j \in DOMAIN last.calls[i] : last.calls[i][j] \in Rotating

\* the ascending keys have been loaded up to, at least, the first rebalance
AscendingFrom3 ==
  /\ last.op = "bulk_insert"
  /\ last.pre = None
  /\ \E n \in 3..5 : last.nodes = AscendingPrefix(n)

\* the tree right after the first rebalance
AscendingAt3 ==
  /\ last.op = "bulk_insert"
  /\ last.pre = None
  /\ last.nodes = AscendingPrefix(3)

\* the claim as made: the root key after the first rebalance is 30
C11_Original ==
  /\ AscendingFrom3 => ~RotatedAt(1) /\ ~RotatedAt(2) /\ RotatedAt(3)
  /\ AscendingAt3 => root.key = Number(30)

C11_FirstRebalance ==
  /\ AscendingFrom3 => ~RotatedAt(1) /\ ~RotatedAt(2) /\ RotatedAt(3)
  /\ AscendingAt3 =>
       /\ Size(root) = 3
       /\ root.key = Number(20)
       /\ root.left.key = Number(10)
       /\ root.right.key = Number(30)

\* 10, 20, 30 have been inserted and the insert of 30 took the right-right case
\* at the node of 10
C11_Witness ==
  /\ AscendingAt3
  /\ last.calls[3] = <<"none", "RR">>
  /\ height(root) = 2

(***************************************************************************)
(* C12.  Root removal: from the empty tree, insert(5, "five");             *)
(* insert(3, "three"); remove(5) leaves search(5) absent and search(3)     *)
(* equal to "three", and the tree is the single node of key 3, without     *)
(* children and with cached height 1.                                      *)
(***************************************************************************)
\* the tree after insert(5, "five"); insert(3, "three") on the empty tree
FiveThenThree ==
  insert_node(insert_node(None, Number(5), String(five)).node,
              Number(3), String(three)).node

C12_RootRemoval ==
  (last.op = "remove" /\ last.key = EitherA(5) /\ last.pre = FiveThenThree) =>
    /\ map_to_either(search_node(root, Number(5))) = None
    /\ map_to_either(search_node(root, Number(3))) = EitherB(three)
    /\ root # None
    /\ root.key = Number(3)
    /\ root.left = None
    /\ root.right = None
    /\ root.height = 1

\* remove(5) has returned "five" from the tree of 5 over 3
C12_Witness ==
  /\ last.op = "remove"
  /\ last.key = EitherA(5)
  /\ last.pre = FiveThenThree
  /\ last.pre.left # None
  /\ last.ret = EitherB(five)
  /\ DOMAIN M = {EitherA(3)}

(***************************************************************************)
(* The comparator on its own: KeyValue::cmp applied to pairs of keys of    *)
(* both variants, the numbers reaching both ends of i32.                   *)
(***************************************************************************)
CmpKeys ==
  {Number(n) : n \in {-2147483647 - 1, -1, 0, 3, 5, 2147483647}}
    \cup {String(s) : s \in {<<>>, <<"a">>, <<"a", "b">>, <<"b">>, five, three}}

Compare(a, b) ==
  /\ last = NoCall
  /\ last' = [NoCall EXCEPT !.op = "cmp", !.key = a, !.value = b, !.ret = cmp(a, b)]
  /\ UNCHANGED <<root, M, panicked>>

NextCmp ==
  \/ \E a \in CmpKeys, b \in CmpKeys : Compare(a, b)
  \/ Return

SpecCmp == Init /\ [][NextCmp]_vars

reverse(o) == IF o = "Less" THEN "Greater" ELSE IF o = "Greater" THEN "Less" ELSE "Equal"

(***************************************************************************)
(* C13.  The comparator is a strict total order over mixed Number and      *)
(* String keys: for any a and b exactly one of a < b, a = b, a > b holds   *)
(* (Equal exactly for equal keys), cmp(b, a) is the reverse of cmp(a, b),  *)
(* the order is transitive, and every Number is less than every String.    *)
(***************************************************************************)
C13_TotalOrder ==
  last.op = "cmp" =>
    LET a == last.key
        b == last.value
    IN /\ last.ret \in {"Less", "Equal", "Greater"}
       /\ (last.ret = "Equal") <=> (a = b)
       /\ cmp(b, a) = reverse(last.ret)
       /\ \A c \in CmpKeys :
            /\ (last.ret = "Less" /\ cmp(b, c) = "Less") => cmp(a, c) = "Less"
            /\ (last.ret = "Less" /\ cmp(b, c) = "Equal") => cmp(a, c) = "Less"
            /\ (last.ret = "Equal" /\ cmp(b, c) = "Less") => cmp(a, c) = "Less"
       /\ (a.tag = "Number" /\ b.tag = "String") => last.ret = "Less"
       /\ (a.tag = "String" /\ b.tag = "Number") => last.ret = "Greater"

\* a String compared with the largest Number
C13_Witness ==
  /\ last.op = "cmp"
  /\ last.key = String(<<"a", "b">>)
  /\ last.value = Number(2147483647)
  /\ last.ret = "Greater"

(***************************************************************************)
(* C14.  Idempotence on repeat with the same input: in any reachable       *)
(* state, insert(k, v) performed twice in a row leaves the same tree       *)
(* (shape, keys, values, cached heights) as performed once, and remove(k)  *)
(* performed twice in a row leaves the same tree as performed once; only   *)
(* an insert of the same key with a different value changes the state on   *)
(* repetition.                                                             *)
(***************************************************************************)
C14_Idempotent ==
  /\ last.op = "insert" =>
       /\ insert_node(root, LastKey, from_either(last.value)).node = root
       /\ \A v \in ValueInputs \ {last.value} :
            LET again == insert_node(root, LastKey, from_either(v)).node IN
            /\ again # root
            /\ again = WithValue(root, LastKey, from_either(v))
  /\ last.op = "remove" =>
       /\ remove_node(root, LastKey).node = root
       /\ remove_node(root, LastKey).removed = None

\* a remove that found its key and rotated; the key is now gone
C14_Witness ==
  /\ last.op = "remove"
  /\ LastHit
  /\ \E i \in DOMAIN last.calls : last.calls[i] \in Rotating
  /\ LastKey \notin KeysOf(root)
  /\ Size(root) >= 4

(***************************************************************************)
(* C15.  Cached heights are never stale: in every state reached from the   *)
(* empty tree by insert and remove calls (after rotations, after the       *)
(* early return of insert on an equal key, after the one-child shortcuts   *)
(* of remove), the height field of every node is 1 + max(height of left,   *)
(* height of right), an empty slot counting 0, and so is at least 1.       *)
(***************************************************************************)
C15_HeightsFresh ==
  \A n \in Subtrees(root) :
    /\ n.height = 1 + i32_max(height(n.left), height(n.right))
    /\ n.height >= 1

\* an insert on a key already present, below a root of height 4
C15_Witness ==
  /\ last.op = "insert"
  /\ LastHit
  /\ LastKey # root.key
  /\ height(root) = 4
  /\ \E n \in Subtrees(root) : n.left = None /\ n.right # None

(***************************************************************************)
(* balance on its own: it is given every node whose two subtrees are AVL   *)
(* trees of at most MaxNodes nodes with heights at most 2 apart, after      *)
(* update_height (as insert_node, remove_node and remove_min call it).     *)
(* The keys are numbered in order, each value is ten times its key.        *)
(***************************************************************************)
\* a node over two subtrees, its key and value still to be set
Shape(l, r) ==
  update_height([key |-> Number(0), value |-> Number(0), height |-> 1,
                 left |-> l, right |-> r])

\* the AVL trees of exactly n nodes
RECURSIVE AVLShapes(_)
AVLShapes(n) ==
  IF n = 0 THEN {None}
  ELSE UNION {{Shape(p[1], p[2]) :
                 p \in {q \in AVLShapes(i) \X AVLShapes(n - 1 - i) :
                          Abs(height(q[1]) - height(q[2])) <= 1}} :
              i \in 0..(n - 1)}

\* node with the keys lo + 1, lo + 2, ... set in order
RECURSIVE Keyed(_, _)
Keyed(node, lo) ==
  IF node = None THEN None
  ELSE LET k == lo + Size(node.left) + 1 IN
       [node EXCEPT !.key = Number(k), !.value = Number(10 * k),
                    !.left = Keyed(node.left, lo),
                    !.right = Keyed(node.right, k)]

BalanceInputs ==
  LET trees == UNION {AVLShapes(n) : n \in 0..MaxNodes} IN
  {Keyed(Shape(p[1], p[2]), 0) :
     p \in {q \in trees \X trees : Abs(height(q[1]) - height(q[2])) <= 2}}

Balance(node) ==
  /\ ~panicked
  /\ last = NoCall
  /\ LET r == balance(node) IN
     /\ panicked' = (r = Panic)
     /\ last' = [NoCall EXCEPT !.op = "balance", !.pre = node, !.ret = r,
                               !.calls = <<balance_case(node)>>]
  /\ UNCHANGED <<root, M>>

NextBalance ==
  \/ Next
  \/ root = None /\ last = NoCall /\ \E node \in BalanceInputs : Balance(node)

SpecBalance == Init /\ [][NextBalance]_vars

\* the height of node when it is an AVL tree with correct cached heights at
\* every node, -1 when it is not
RECURSIVE WellFormed(_)
WellFormed(node) ==
  IF node = None THEN 0
  ELSE LET l == WellFormed(node.left)
           r == WellFormed(node.right)
       IN IF l < 0 \/ r < 0 \/ Abs(l - r) > 1 \/ node.height # 1 + i32_max(l, r)
          THEN -1 ELSE node.height

\* the entries of node, left subtree first
RECURSIVE InOrder(_)
InOrder(node) ==
  IF node = None THEN <<>>
  ELSE InOrder(node.left) \o <<[key |-> node.key, value |-> node.value]>>
         \o InOrder(node.right)

\* node is as balance expects it
BalanceForm(node) ==
  /\ WellFormed(node.left) >= 0
  /\ WellFormed(node.right) >= 0
  /\ Abs(height(node.left) - height(node.right)) <= 2
  /\ node.height = 1 + i32_max(height(node.left), height(node.right))

\* the rotations of the branch of balance
Rotations(case) ==
  IF case \in {"LR", "RL"} THEN 2 ELSE IF case \in {"LL", "RR"} THEN 1 ELSE 0

\* what balance owes on node
BalanceDone(node) ==
  /\ balance(node) # Panic
  /\ Rotations(balance_case(node)) <= 2
  /\ balance_case(node) = "none" <=> Abs(balance_factor(node)) <= 1
  /\ WellFormed(balance(node)) >= 0
  /\ InOrder(balance(node)) = InOrder(node)

\* the nodes the call in last handed to balance, innermost first
LastArgs ==
  IF last.op = "insert"
    THEN insert_node(last.pre, LastKey, from_either(last.value)).args
  ELSE IF last.op = "remove" THEN remove_node(last.pre, LastKey).args
  ELSE <<>>

(***************************************************************************)
(* C16.  balance is sufficient with one single or double rotation: on      *)
(* every node whose two subtrees are AVL trees with correct cached heights *)
(* and whose subtree heights differ by at most 2, balance performs at most *)
(* two rotations and returns an AVL tree with correct cached heights at    *)
(* every node and the same in-order sequence of entries; every call of     *)
(* balance made during insert, remove and remove_min is on such a node.    *)
(***************************************************************************)
C16_BalanceSufficient ==
  /\ last.op = "balance" =>
       /\ BalanceForm(last.pre)
       /\ BalanceDone(last.pre)
       /\ last.ret = balance(last.pre)
  /\ \A i \in DOMAIN LastArgs :
       /\ BalanceForm(LastArgs[i])
       /\ BalanceDone(LastArgs[i])

\* balance rotated once to the right a node whose left child is even: the
\* case that only a removal on the right brings about
C16_Witness ==
  /\ last.op = "balance"
  /\ last.calls = <<"LL">>
  /\ balance_factor(last.pre.left) = 0
  /\ height(last.pre.left) = 3
  /\ height(last.ret) = 4

(***************************************************************************)
(* C17.  Two-children removal by successor promotion: when remove(k)       *)
(* reaches the node of key k and it has both children, remove_min returns  *)
(* the node of the least key of the right subtree together with that       *)
(* subtree without it, rebalanced at every ancestor of the minimum; the    *)
(* node at k's position then holds the successor's key and value; and the  *)
(* keys of the tree are the previous keys without k, in BST order.         *)
(***************************************************************************)
\* the turns search_node takes from node to key
RECURSIVE PathTo(_, _)
PathTo(node, key) ==
  IF node = None THEN <<>>
  ELSE IF cmp(key, node.key) = "Less" THEN <<"left">> \o PathTo(node.left, key)
  ELSE IF cmp(key, node.key) = "Greater" THEN <<"right">> \o PathTo(node.right, key)
  ELSE <<>>

\* the number of left turns from node down to its least key
RECURSIVE LeftDepth(_)
LeftDepth(node) == IF node.left = None THEN 0 ELSE 1 + LeftDepth(node.left)

\* every key of the left subtree is less, every key of the right is greater
Ordered(tree) ==
  \A n \in Subtrees(tree) :
    /\ \A k \in KeysOf(n.left) : cmp(k, n.key) = "Less"
    /\ \A k \in KeysOf(n.right) : cmp(k, n.key) = "Greater"

\* the call in last is a remove that reached its key at a node with two children
TwoChildren ==
  /\ last.op = "remove"
  /\ LastHit
  /\ NodeOf(last.pre, LastKey).left # None
  /\ NodeOf(last.pre, LastKey).right # None

C17_SuccessorPromotion ==
  TwoChildren =>
    LET n    == NodeOf(last.pre, LastKey)
        rm   == remove_min(n.right)
        succ == [key |-> rm.min.key, value |-> rm.min.value]
        at   == remove_node(n, LastKey)
        up   == at.args[Len(at.args)]
    IN /\ succ \in EntriesOf(n.right)
       /\ \A k \in KeysOf(n.right) \ {succ.key} : cmp(succ.key, k) = "Less"
       /\ EntriesOf(rm.node) = EntriesOf(n.right) \ {succ}
       /\ Size(rm.node) = Size(n.right) - 1
       /\ Ordered(rm.node)
       /\ WellFormed(rm.node) >= 0
       /\ Len(rm.args) = LeftDepth(n.right)
       /\ Len(at.args) = Len(rm.args) + 1
       /\ up.key = succ.key
       /\ up.value = succ.value
       /\ up.left = n.left
       /\ up.right = rm.node
       /\ at.node = balance(up)
       /\ at.removed = n.value
       /\ (\A i \in DOMAIN last.calls : last.calls[i] = "none") =>
            /\ PathTo(root, succ.key) = PathTo(last.pre, LastKey)
            /\ NodeOf(root, succ.key).value = succ.value
       /\ search_node(root, succ.key) = succ.value
       /\ KeysOf(root) = KeysOf(last.pre) \ {LastKey}
       /\ Size(root) = Size(last.pre) - 1
       /\ Ordered(root)

\* the root of a tree of seven keys is removed; its successor sat two levels
\* down the right subtree, which remove_min had to rotate
C17_Witness ==
  /\ TwoChildren
  /\ last.pre.key = LastKey
  /\ Size(last.pre) = 7
  /\ LeftDepth(last.pre.right) >= 1
  /\ \E i \in DOMAIN remove_min(last.pre.right).calls :
       remove_min(last.pre.right).calls[i] \in Rotating
  /\ root.key = remove_min(last.pre.right).min.key

(***************************************************************************)
(* C18.  An insert rotates at no more than one place: for any reachable    *)
(* tree and any insert of a key not yet present, of the balance calls made *)
(* on the nodes of the insertion path while unwinding at most one takes a  *)
(* rotating branch, and every balance call on an ancestor above that node  *)
(* returns its node unchanged.                                             *)
(***************************************************************************)
C18_OneRotation ==
  (last.op = "insert" /\ ~LastHit) =>
    /\ Cardinality({i \in DOMAIN last.calls : last.calls[i] \in Rotating}) <= 1
    /\ Len(last.calls) = PathLen(last.pre, LastKey)
    /\ \A i \in DOMAIN last.calls :
         last.calls[i] \in Rotating =>
           \A j \in (i + 1)..Len(last.calls) :
             /\ last.calls[j] = "none"
             /\ balance(LastArgs[j]) = LastArgs[j]

\* a new key went in three levels down; the second node up rotated and the
\* root above it was left as it was
C18_Witness ==
  /\ last.op = "insert"
  /\ ~LastHit
  /\ Len(last.calls) = 3
  /\ last.calls[1] = "none"
  /\ last.calls[2] \in Rotating
  /\ last.calls[3] = "none"
  /\ root.key = last.pre.key

(***************************************************************************)
(* C19.  The tree height moves by at most one per operation: for any       *)
(* reachable tree of height h, after insert the root's height is h or      *)
(* h + 1, and after remove it is h or h - 1, and h when the key was        *)
(* absent.                                                                 *)
(***************************************************************************)
C19_HeightStep ==
  LET h == height(last.pre) IN
  /\ last.op = "insert" => height(root) \in {h, h + 1}
  /\ (last.op = "insert" /\ LastHit) => height(root) = h
  /\ last.op = "remove" => height(root) \in {h, h - 1}
  /\ (last.op = "remove" /\ ~LastHit) => height(root) = h
  /\ last.op \in {"insert", "remove"} =>
       /\ h = TrueHeight(last.pre)
       /\ height(root) = TrueHeight(root)

\* a remove whose rotation at the root lowered a tree of height 4 to height 3
C19_Witness ==
  /\ last.op = "remove"
  /\ LastHit
  /\ height(last.pre) = 4
  /\ height(root) = 3
  /\ last.calls[Len(last.calls)] \in Rotating

====
